---- MODULE Spec2Model ----
(***************************************************************************)
(* Model of src/app.py: the search -> scrape -> summarise pipeline, the    *)
(* quiz generator and the Streamlit session state (search_history,         *)
(* quizzes, api_key) that the button handlers mutate.                      *)
(*                                                                         *)
(* Every handler runs to completion before the next one starts (Streamlit  *)
(* reruns the script per user action), so each handler is one action.      *)
(* Python list / dict indices are 0-based; search_history is a TLA+        *)
(* sequence, so Python index i is position i + 1 (see At).                 *)
(*                                                                         *)
(* Texts that the code only passes around are atoms.  Texts that the code  *)
(* inspects are modelled by what the code inspects:                        *)
(*   - the text returned by scrape_content is a record whose `head` is the *)
(*     prefix that get_summary tests with str.startswith;                  *)
(*   - the text returned by the generative service for a quiz is a         *)
(*     sequence of characters (records [c |-> ...]) around one JSON        *)
(*     document token, so that strip / lstrip / rstrip act on characters.  *)
(* The backtick is written "bt", newline "nl", space "sp".                 *)
(***************************************************************************)
EXTENDS Integers, Sequences, FiniteSets, TLC

VARIABLES
    api_key,          \* st.session_state.api_key
    search_history,   \* st.session_state.search_history (front = most recent)
    quizzes,          \* st.session_state.quizzes : index -> quiz_data
    quiz_item,        \* history: the history_item argument each stored quiz was generated from
    calls,            \* history: external calls made by the last handler, in call order
    last              \* history: the last handler run, its inputs and its result

vars == <<api_key, search_history, quizzes, quiz_item, calls, last>>

----------------------------------------------------------------------------
(* Bounds of the model *)

MaxHistory == 2       \* searches recorded per session
MaxResults == 2       \* results the search provider returns (at most max_results)

(* Program constants *)

max_results == 4      \* search_web(query, max_results = 4)
NumOptions == 4       \* len(quiz_data["options"]) == 4

----------------------------------------------------------------------------
(* Small helpers *)

Min(a, b) == IF a < b THEN a ELSE b

Range(s) == {s[k] : k \in 1..Len(s)}

\* Python list index i (0-based) of a TLA+ sequence
At(s, i) == s[i + 1]

\* list.insert(0, x) written as list.append(x)
InsertBack(s, x) == Append(s, x)

\* list.insert(0, x)
InsertFront(s, x) == <<x>> \o s

None == [t |-> "None"]

\* str.startswith on a text held as a sequence of tokens
StartsWith(text, prefix) ==
    /\ Len(text) >= Len(prefix)
    /\ SubSeq(text, 1, Len(prefix)) = prefix

----------------------------------------------------------------------------
(* Search provider *)

Titles == <<"t1", "t2", "t3", "t4">>
Hrefs == <<"u1", "u2", "u3", "u4">>

\* the list the provider yields when it returns n results, in rank order
ProviderResults(n) == [k \in 1..n |-> [title |-> Titles[k], href |-> Hrefs[k]]]

\* what the provider may do on one call: raise, or return 0..max_results results
ProviderOutcomes ==
    {[exc |-> TRUE, n |-> 0]}
        \cup {[exc |-> FALSE, n |-> n] : n \in 0..Min(MaxResults, max_results)}

\* search_web: the provider's list, or [] when the provider raises
search_web(provider) ==
    IF provider.exc THEN <<>> ELSE ProviderResults(provider.n)

----------------------------------------------------------------------------
(* Content extractor *)

FetchFailedPrefix == <<"FETCH_FAILED">>          \* "コンテンツの取得に失敗"
UnexpectedPrefix == <<"UNEXPECTED_ERROR">>       \* "予期せぬエラー"

\* what one page fetch may do
FetchOutcomes == {"ok", "RequestException", "Exception"}

\* scrape_content: the page text (capped), or one of the two failure messages
scrape_content(url, fetch) ==
    CASE fetch = "ok" -> <<"PAGE_TEXT", url>>
      [] fetch = "RequestException" -> FetchFailedPrefix \o <<"shimashita", url>>
      [] OTHER -> UnexpectedPrefix \o <<"de_fetch_failed", url>>

\* the test with its second startswith left out
IsKeptOnePrefix(content) == ~StartsWith(content, FetchFailedPrefix)

\* the test get_summary applies to a scraped text before keeping it
IsKept(content) ==
    /\ ~StartsWith(content, FetchFailedPrefix)
    /\ ~StartsWith(content, UnexpectedPrefix)

----------------------------------------------------------------------------
(* Research pipeline *)

NothingFetched == <<"NOTHING_FETCHED">>
SummaryErrors == {"quota"}
SummaryTexts == {"S"}

\* what model.generate_content / response.text may do for a summary
SummaryOutcomes ==
    {[exc |-> "none", text |-> t] : t \in SummaryTexts}
        \cup {[exc |-> e, text |-> ""] : e \in SummaryErrors}

\* the count taken from the loop index as it is
ProgressCountOffByOne(i) == i

\* the count reported after the page of Python index i: (i + 1) of len(search_results)
ProgressCount(i) == i + 1

\* the for loop of get_summary from result k on; acc holds scraped_contents
\* and the calls made so far
RECURSIVE ScrapeLoop(_, _, _, _)
ScrapeLoop(results, fetches, k, acc) ==
    IF k > Len(results) THEN acc
    ELSE LET result == results[k]
             content == scrape_content(result.href, fetches[k])
             scrapeCall == [fn |-> "scrape_content", url |-> result.href,
                            exc |-> fetches[k], ret |-> content]
             progressCall == [fn |-> "progress", done |-> ProgressCount(k - 1),
                              total |-> Len(results), title |-> result.title]
             kept == IF IsKept(content)
                     THEN Append(acc.scraped_contents,
                                 [source |-> k, title |-> result.title,
                                  content |-> content])
                     ELSE acc.scraped_contents
         IN  ScrapeLoop(results, fetches, k + 1,
                        [scraped_contents |-> kept,
                         calls |-> acc.calls \o <<scrapeCall, progressCall>>])

\* model.generate_content called outside any try
GenerateSummaryNoTry(prompt, gen) ==
    LET call == [fn |-> "generate_content", prompt |-> prompt, exc |-> gen.exc]
    IN  IF gen.exc = "none"
        THEN [raised |-> FALSE, value |-> <<gen.text>>, calls |-> <<call>>]
        ELSE [raised |-> TRUE, value |-> <<>>, calls |-> <<call>>]

\* the try / except around model.generate_content in get_summary
GenerateSummary(prompt, gen) ==
    LET call == [fn |-> "generate_content", prompt |-> prompt, exc |-> gen.exc]
    IN  IF gen.exc = "none"
        THEN [raised |-> FALSE, value |-> <<gen.text>>, calls |-> <<call>>]
        ELSE [raised |-> FALSE, value |-> <<"SUMMARY_ERROR", gen.exc>>,
              calls |-> <<call>>]

\* get_summary without the "if not scraped_contents" return
get_summaryNoThreshold(query, search_results, fetches, gen) ==
    LET loop == ScrapeLoop(search_results, fetches, 1,
                           [scraped_contents |-> <<>>, calls |-> <<>>])
        prompt == [query |-> query, contents |-> loop.scraped_contents]
        g == GenerateSummary(prompt, gen)
    IN  [raised |-> g.raised, value |-> g.value, calls |-> loop.calls \o g.calls]

get_summary(query, search_results, fetches, gen) ==
    LET loop == ScrapeLoop(search_results, fetches, 1,
                           [scraped_contents |-> <<>>, calls |-> <<>>])
    IN  IF loop.scraped_contents = <<>>
        THEN [raised |-> FALSE, value |-> NothingFetched, calls |-> loop.calls]
        ELSE LET prompt == [query |-> query, contents |-> loop.scraped_contents]
                 g == GenerateSummary(prompt, gen)
             IN  [raised |-> g.raised, value |-> g.value,
                  calls |-> loop.calls \o g.calls]

Queries == {"", "q1"}
ApiKeys == {"", "key"}

\* "if search_results is None" in place of "if not search_results"
NoResultsIsNone(search_results) == FALSE

\* if not search_results
NoResults(search_results) == search_results = <<>>

\* the history record the search handler builds
HistoryItem(query, summary, search_results) ==
    [query |-> query, summary |-> summary,
     sources |-> [k \in 1..Len(search_results) |->
                     [title |-> search_results[k].title,
                      href |-> search_results[k].href]]]

\* the "検索実行" button handler
Search(query, provider, fetches, gen) ==
    /\ api_key # ""
    /\ Len(search_history) < MaxHistory
    /\ IF query = ""
       THEN /\ last' = [op |-> "search", query |-> query, shown |-> "warning"]
            /\ calls' = <<>>
            /\ UNCHANGED search_history
       ELSE LET search_results == search_web(provider)
                searchCall == [fn |-> "ddgs_text", query |-> query,
                               exc |-> provider.exc, n |-> provider.n]
            IN  IF NoResults(search_results)
                THEN /\ last' = [op |-> "search", query |-> query,
                                 results |-> search_results,
                                 shown |-> "no_results"]
                     /\ calls' = <<searchCall>>
                     /\ UNCHANGED search_history
                ELSE \E r \in {get_summary(query, search_results, fetches, gen)} :
                         /\ calls' = <<searchCall>> \o r.calls
                         /\ IF r.raised
                            THEN /\ last' = [op |-> "search", query |-> query,
                                             results |-> search_results,
                                             shown |-> "exception"]
                                 /\ UNCHANGED search_history
                            ELSE /\ last' = [op |-> "search", query |-> query,
                                             results |-> search_results,
                                             shown |-> "summary",
                                             summary |-> r.value]
                                 /\ search_history' =
                                        InsertFront(search_history,
                                            HistoryItem(query, r.value,
                                                        search_results))
    /\ UNCHANGED <<api_key, quizzes, quiz_item>>

\* the sidebar text input
SetApiKey(k) ==
    /\ k # api_key
    /\ api_key' = k
    /\ last' = [op |-> "set_api_key"]
    /\ calls' = <<>>
    /\ UNCHANGED <<search_history, quizzes, quiz_item>>

----------------------------------------------------------------------------
(* Texts of the generative service, as characters around a JSON document *)

Ch(c) == [c |-> c]

\* the string whose characters are named by the sequence s
Str(s) == [k \in 1..Len(s) |-> Ch(s[k])]

\* the set of characters of a string (the argument of lstrip / rstrip)
CharsOf(text) == {text[k] : k \in 1..Len(text)}

Whitespace == {Ch("nl"), Ch("sp")}

RECURSIVE lstrip(_, _)
lstrip(text, chars) ==
    IF text # <<>> /\ Head(text) \in chars THEN lstrip(Tail(text), chars)
    ELSE text

RECURSIVE rstrip(_, _)
rstrip(text, chars) ==
    IF text # <<>> /\ text[Len(text)] \in chars
    THEN rstrip(SubSeq(text, 1, Len(text) - 1), chars)
    ELSE text

\* str.strip()
strip(text) == rstrip(lstrip(text, Whitespace), Whitespace)

FenceOpenArg == Str(<<"bt", "bt", "bt", "j", "s", "o", "n">>)    \* "```json"
FenceCloseArg == Str(<<"bt", "bt", "bt">>)                        \* "```"

\* response.text.strip() alone
CleanResponseNoFence(text) == strip(text)

\* response.text.strip().lstrip("```json").rstrip("```").strip()
CleanResponse(text) ==
    strip(rstrip(lstrip(strip(text), CharsOf(FenceOpenArg)),
                 CharsOf(FenceCloseArg)))

\* a well-formed JSON object or array written out in full is one token
DocTok(v) == [c |-> "json", doc |-> v]

JsonObject(rec) == [t |-> "object", obj |-> rec]
JsonArray(seq) == [t |-> "array", arr |-> seq]
JsonNull == [t |-> "null"]

NullText == Str(<<"n", "u", "l", "l">>)

\* json.loads: surrounding whitespace is skipped; anything but exactly one
\* JSON document raises JSONDecodeError
json_loads(text) ==
    LET body == strip(text)
    IN  IF body = NullText THEN [exc |-> "none", value |-> JsonNull]
        ELSE IF Len(body) = 1 /\ body[1].c = "json"
        THEN [exc |-> "none", value |-> body[1].doc]
        ELSE [exc |-> "JSONDecodeError", value |-> None]

RequiredKeys == {"question", "options", "answer", "explanation"}

\* all(k in quiz_data for k in [...]) and len(quiz_data["options"]) == 4
ValidateQuiz(quiz_data) ==
    CASE quiz_data.t = "object" ->
             [exc |-> "none",
              value |-> /\ RequiredKeys \subseteq DOMAIN quiz_data.obj
                        /\ Len(quiz_data.obj.options) = NumOptions]
      [] quiz_data.t = "array" ->
             IF RequiredKeys \subseteq Range(quiz_data.arr)
             THEN [exc |-> "TypeError", value |-> FALSE]   \* list["options"]
             ELSE [exc |-> "none", value |-> FALSE]
      [] OTHER -> [exc |-> "TypeError", value |-> FALSE]   \* k in None

\* text of a response: what precedes the document, the document, what follows
ResponseText(response) == response.pre \o response.doc \o response.post

\* the body of the try block of generate_quiz
QuizTry(response) ==
    IF response.exc # "none" THEN [exc |-> response.exc, value |-> None]
    ELSE LET cleaned_response == CleanResponse(ResponseText(response))
             parsed == json_loads(cleaned_response)
         IN  IF parsed.exc # "none" THEN [exc |-> parsed.exc, value |-> None]
             ELSE LET ok == ValidateQuiz(parsed.value)
                  IN  IF ok.exc # "none" THEN [exc |-> ok.exc, value |-> None]
                      ELSE IF ok.value
                      THEN [exc |-> "none", value |-> parsed.value]
                      ELSE [exc |-> "none", value |-> None]

\* except (json.JSONDecodeError, AttributeError, KeyError)
QuizCatchesNarrow(exc) == exc \in {"JSONDecodeError", "AttributeError", "KeyError"}

\* except Exception
QuizCatches(exc) == TRUE

generate_quiz(history_item, response) ==
    LET call == [fn |-> "generate_content",
                 prompt |-> [query |-> history_item.query,
                             summary |-> history_item.summary],
                 exc |-> response.exc]
        r == QuizTry(response)
    IN  IF r.exc = "none"
        THEN [raised |-> FALSE, value |-> r.value, calls |-> <<call>>]
        ELSE IF QuizCatches(r.exc)
        THEN [raised |-> FALSE, value |-> None, calls |-> <<call>>]
        ELSE [raised |-> TRUE, value |-> None, calls |-> <<call>>]

\* dict[key] = value
DictSet(d, key, value) ==
    [j \in DOMAIN d \cup {key} |-> IF j = key THEN value ELSE d[j]]

HistoryIndices == 0..(Len(search_history) - 1)

\* the "この履歴でクイズを生成" button handler of history entry i
GenerateQuiz(i, response) ==
    /\ api_key # ""
    /\ i \in HistoryIndices
    /\ i \notin DOMAIN quizzes
    /\ \E item \in {At(search_history, i)} :
       \E r \in {generate_quiz(item, response)} :
           /\ calls' = r.calls
           /\ last' = [op |-> "generate_quiz", i |-> i, response |-> response,
                       raised |-> r.raised, ret |-> r.value]
           /\ IF ~r.raised /\ r.value # None
              THEN /\ quizzes' = DictSet(quizzes, i, r.value)
                   /\ quiz_item' = DictSet(quiz_item, i, item)
              ELSE UNCHANGED <<quizzes, quiz_item>>
    /\ UNCHANGED <<api_key, search_history>>

\* the "解答する" form of history entry i
SubmitQuiz(i, user_answer) ==
    /\ i \in HistoryIndices
    /\ i \in DOMAIN quizzes
    /\ user_answer \in Range(quizzes[i].obj.options)
    /\ last' = [op |-> "submit_quiz", i |-> i, user_answer |-> user_answer,
                correct |-> (user_answer = quizzes[i].obj.answer)]
    /\ calls' = <<>>
    /\ UNCHANGED <<api_key, search_history, quizzes, quiz_item>>

----------------------------------------------------------------------------
(* Responses of the generative service to a quiz prompt *)

Options(n) == SubSeq(<<"A", "B", "C", "D", "E">>, 1, n)

QuizObject(options, answer) ==
    JsonObject([question |-> "Q", options |-> options, answer |-> answer,
                explanation |-> "X"])

\* objects with the four keys and four options; "Z" is not one of the options
WellShapedDocs == {QuizObject(Options(4), a) : a \in {"B", "Z"}}

IllShapedDocs ==
    {QuizObject(Options(3), "B"), QuizObject(Options(5), "B"),
     JsonObject([options |-> Options(4), answer |-> "B", explanation |-> "X"]),
     JsonObject([question |-> "Q", answer |-> "B", explanation |-> "X"]),
     JsonObject([question |-> "Q", options |-> Options(4), explanation |-> "X"]),
     JsonObject([question |-> "Q", options |-> Options(4), answer |-> "B"]),
     JsonArray(<<"question", "options", "answer", "explanation">>)}

\* document texts: well-formed documents, null, and text that is not JSON
DocTexts ==
    {<<DocTok(v)>> : v \in WellShapedDocs \cup IllShapedDocs}
        \cup {NullText, Str(<<"x">>), <<>>}

FenceOpens ==
    {FenceOpenArg \o Str(<<"nl">>), FenceOpenArg,
     FenceCloseArg \o Str(<<"nl">>)}

FenceCloses ==
    {Str(<<"nl">>) \o FenceCloseArg, FenceCloseArg,
     Str(<<"nl">>) \o FenceCloseArg \o Str(<<"nl">>)}

Prefixes ==
    {<<>>} \cup FenceOpens
        \cup {Str(<<"j", "s", "o", "n", "nl">>), Str(<<"x", "sp">>)}

Suffixes == {<<>>} \cup FenceCloses \cup {Str(<<"sp", "x">>)}

ServiceError == [exc |-> "ServiceError", pre |-> <<>>, doc |-> <<>>, post |-> <<>>]

QuizResponses ==
    {ServiceError}
        \cup {[exc |-> "none", pre |-> pre, doc |-> doc, post |-> post] :
                 pre \in Prefixes, doc \in DocTexts, post \in Suffixes}

----------------------------------------------------------------------------
(* The session *)

Init ==
    /\ api_key = ""
    /\ search_history = <<>>
    /\ quizzes = <<>>
    /\ quiz_item = <<>>
    /\ calls = <<>>
    /\ last = [op |-> "start"]

\* every page of a run fetched with the same outcome
UniformFetches(n) == {[k \in 1..n |-> f] : f \in FetchOutcomes}

\* any outcome per page
AllFetches(n) == [1..n -> FetchOutcomes]

Respond(pre, doc, post) == [exc |-> "none", pre |-> pre, doc |-> doc, post |-> post]

\* the responses tried within a whole session: a service error, a bare and a
\* fenced well-shaped quiz, a quiz whose answer is no option, and prose
SessionResponses ==
    {ServiceError,
     Respond(<<>>, <<DocTok(QuizObject(Options(4), "B"))>>, <<>>),
     Respond(FenceOpenArg \o Str(<<"nl">>),
             <<DocTok(QuizObject(Options(4), "B"))>>,
             Str(<<"nl">>) \o FenceCloseArg),
     Respond(<<>>, <<DocTok(QuizObject(Options(4), "Z"))>>, <<>>),
     Respond(<<>>, Str(<<"x">>), <<>>)}

\* the provider outcomes tried within a whole session: at most two results
SessionProviders == {provider \in ProviderOutcomes : provider.n <= 2}

DoSetApiKey == \E k \in ApiKeys : SetApiKey(k)

DoSearch ==
    \E query \in Queries, provider \in SessionProviders, gen \in SummaryOutcomes :
        \E fetches \in UniformFetches(provider.n) :
            Search(query, provider, fetches, gen)

DoGenerateQuiz ==
    \E i \in HistoryIndices, response \in SessionResponses :
        GenerateQuiz(i, response)

DoSubmitQuiz ==
    \E i \in DOMAIN quizzes, user_answer \in Range(Options(NumOptions)) :
        SubmitQuiz(i, user_answer)

Next == DoSetApiKey \/ DoSearch \/ DoGenerateQuiz \/ DoSubmitQuiz

Spec == Init /\ [][Next]_vars

----------------------------------------------------------------------------
(* The research pipeline alone: searches with every outcome per page *)

DoSearchAnyFetch ==
    \E query \in Queries, provider \in ProviderOutcomes, gen \in SummaryOutcomes :
        \E fetches \in AllFetches(provider.n) :
            Search(query, provider, fetches, gen)

NextPipeline == DoSetApiKey \/ DoSearchAnyFetch

SpecPipeline == Init /\ [][NextPipeline]_vars

----------------------------------------------------------------------------
(* The quiz generator alone: a session that holds two searches, and every *)
(* response of the service                                                 *)

InitQuiz ==
    /\ api_key = "key"
    /\ search_history =
           <<HistoryItem("q1", <<"S">>, ProviderResults(1)),
             HistoryItem("q1", NothingFetched, ProviderResults(1))>>
    /\ quizzes = <<>>
    /\ quiz_item = <<>>
    /\ calls = <<>>
    /\ last = [op |-> "start"]

DoGenerateQuizAnyResponse ==
    \E i \in HistoryIndices, response \in QuizResponses :
        GenerateQuiz(i, response)

NextQuiz == DoGenerateQuizAnyResponse \/ DoSubmitQuiz

SpecQuiz == InitQuiz /\ [][NextQuiz]_vars

----------------------------------------------------------------------------
(* Properties *)

ScrapeCalls(cs) == SelectSeq(cs, LAMBDA c : c.fn = "scrape_content")
GenerateCalls(cs) == SelectSeq(cs, LAMBDA c : c.fn = "generate_content")
LoopCalls(cs) == SelectSeq(cs, LAMBDA c : c.fn \in {"scrape_content", "progress"})

\* the last handler was a search that went through get_summary
RanSummary(l) == l.op = "search" /\ l.shown \in {"summary", "exception"}

\* every scrape_content call of the run ended in one of its except branches
EveryScrapeFailed(cs) ==
    /\ ScrapeCalls(cs) # <<>>
    /\ \A c \in Range(ScrapeCalls(cs)) : c.exc # "ok"

\* the search provider gave nothing: it raised, or returned an empty list
ProviderGaveNothing(cs) ==
    /\ cs # <<>>
    /\ cs[1].fn = "ddgs_text"
    /\ (cs[1].exc \/ cs[1].n = 0)

\* C1: when every scrape_content call of a get_summary run over a non-empty
\* result list returns a failure message, get_summary returns the "nothing
\* could be fetched" text and generate_content is not called in that run.
C1_AllFailedNoGeneration ==
    (RanSummary(last) /\ EveryScrapeFailed(calls))
        => /\ last.shown = "summary"
           /\ last.summary = NothingFetched
           /\ GenerateCalls(calls) = <<>>

C1_Witness ==
    /\ RanSummary(last)
    /\ EveryScrapeFailed(calls)
    /\ {c.exc : c \in Range(ScrapeCalls(calls))} = {"RequestException", "Exception"}
    /\ last.summary = NothingFetched

\* C2 as claimed: whatever the handler, an item at index i of search_history
\* is still at index i afterwards.
C2_IndicesStable ==
    [][\A k \in 1..Len(search_history) :
           /\ Len(search_history') >= k
           /\ search_history'[k] = search_history[k]]_vars

\* C2 amended: quiz generation and quiz submission leave search_history as it
\* is; a search that records an item puts it at index 0 and moves every
\* earlier item from index i to index i + 1, so the list stays most recent
\* first.
C2_ShiftByOne ==
    [][/\ last'.op \in {"generate_quiz", "submit_quiz"}
            => search_history' = search_history
       /\ search_history' # search_history
            => /\ last'.op = "search"
               /\ Len(search_history') = Len(search_history) + 1
               /\ \A k \in 1..Len(search_history) :
                      search_history'[k + 1] = search_history[k]]_vars

C2_Witness ==
    /\ last.op = "search"
    /\ Len(search_history) >= 2
    /\ search_history[1] # search_history[2]

\* C3: when the search provider raises or returns no result, the search
\* handler calls neither scrape_content nor generate_content and leaves
\* search_history as it was.
C3_NoResultsNoWork ==
    [][(last'.op = "search" /\ ProviderGaveNothing(calls'))
           => /\ search_history' = search_history
              /\ \A c \in Range(calls') :
                     c.fn \notin {"scrape_content", "generate_content"}]_vars

C3_Witness ==
    /\ last.op = "search"
    /\ ProviderGaveNothing(calls)
    /\ last.shown = "no_results"
    /\ search_history # <<>>

\* C4 as claimed: when every extraction of a search fails, search_history
\* after the handler equals search_history before it.
C4_NoHistoryOnTotalFailure ==
    [][(RanSummary(last') /\ EveryScrapeFailed(calls'))
           => search_history' = search_history]_vars

\* C4 amended: when every extraction of a search fails, the handler records
\* one item at the front of search_history, whose summary is the "nothing
\* could be fetched" text and whose query and sources are those of the
\* search; the earlier items follow it unchanged.
C4_TotalFailureIsRecorded ==
    [][(RanSummary(last') /\ EveryScrapeFailed(calls'))
           => search_history' =
                  <<HistoryItem(last'.query, NothingFetched, last'.results)>>
                      \o search_history]_vars

C4_Witness ==
    /\ RanSummary(last)
    /\ EveryScrapeFailed(calls)
    /\ Len(search_history) >= 2
    /\ search_history[1].summary = NothingFetched
    /\ search_history[2].summary # NothingFetched

\* C5 as claimed: every stored quiz has exactly 4 options and an answer that
\* is one of them.
C5_StoredQuizWellFormed ==
    \A i \in DOMAIN quizzes :
        /\ Len(quizzes[i].obj.options) = NumOptions
        /\ quizzes[i].obj.answer \in Range(quizzes[i].obj.options)

\* C6: a get_summary run over N >= 1 results calls scrape_content N times,
\* on the results' links in the order returned, and reports progress k of N
\* right after the k-th call returns and before the next call starts.
C6_ScrapeInOrderWithProgress ==
    RanSummary(last)
        => LET n == Len(last.results)
               ev == LoopCalls(calls)
           IN  /\ Len(ScrapeCalls(calls)) = n
               /\ Len(ev) = 2 * n
               /\ \A k \in 1..n :
                      /\ ev[2 * k - 1].fn = "scrape_content"
                      /\ ev[2 * k - 1].url = last.results[k].href
                      /\ ev[2 * k].fn = "progress"
                      /\ ev[2 * k].done = k
                      /\ ev[2 * k].total = n

C6_Witness ==
    /\ RanSummary(last)
    /\ Len(last.results) >= 2
    /\ \E k \in 1..Len(calls) : calls[k].fn = "progress" /\ calls[k].done = 2

\* C8: when generate_content fails during a summary, get_summary does not
\* raise; it returns a text that carries the error, and the search handler
\* completes with that text as the summary of the recorded item.
C8_GenerationErrorIsSummary ==
    \A c \in Range(GenerateCalls(calls)) :
        (last.op = "search" /\ c.exc # "none")
            => /\ last.shown = "summary"
               /\ last.summary = <<"SUMMARY_ERROR", c.exc>>
               /\ search_history # <<>>
               /\ search_history[1].summary = last.summary

C8_Witness ==
    /\ last.op = "search"
    /\ \E c \in Range(GenerateCalls(calls)) : c.exc # "none"
    /\ last.shown = "summary"
    /\ search_history[1].summary = <<"SUMMARY_ERROR", "quota">>

\* what a response to a quiz prompt is, by how the service composed it
ServiceFailed(response) == response.exc # "none"
MalformedJson(response) ==
    \/ response.doc \in {Str(<<"x">>), <<>>}
    \/ response.pre = Str(<<"x", "sp">>)
    \/ response.post = Str(<<"sp", "x">>)
LacksKey(response) ==
    \/ response.doc = NullText
    \/ \E v \in IllShapedDocs :
           /\ response.doc = <<DocTok(v)>>
           /\ (v.t # "object" \/ ~(RequiredKeys \subseteq DOMAIN v.obj))
WrongOptionCount(response) ==
    \E v \in IllShapedDocs :
        /\ response.doc = <<DocTok(v)>>
        /\ v.t = "object"
        /\ "options" \in DOMAIN v.obj
        /\ Len(v.obj.options) # NumOptions

BareQuiz(response) ==
    /\ response.exc = "none"
    /\ response.doc \in {<<DocTok(v)>> : v \in WellShapedDocs}
    /\ response.pre = <<>>
    /\ response.post = <<>>
FencedQuiz(response) ==
    /\ response.exc = "none"
    /\ response.doc \in {<<DocTok(v)>> : v \in WellShapedDocs}
    /\ response.pre \in FenceOpens
    /\ response.post \in FenceCloses

\* C9: for a JSON object with the four keys and four options, generate_quiz
\* returns that object both when the response is the bare JSON and when it
\* is the same JSON inside a fenced code block, and the handler stores it.
C9_FencingAgnostic ==
    (last.op = "generate_quiz"
        /\ (BareQuiz(last.response) \/ FencedQuiz(last.response)))
        => /\ ~last.raised
           /\ <<DocTok(last.ret)>> = last.response.doc
           /\ last.i \in DOMAIN quizzes
           /\ quizzes[last.i] = last.ret

C9_Witness ==
    /\ last.op = "generate_quiz"
    /\ FencedQuiz(last.response)
    /\ <<DocTok(last.ret)>> = last.response.doc

\* C10 as claimed: every stored quiz is keyed by the index of the history
\* item it was generated from.
C10_QuizKeyedByItsItem ==
    \A i \in DOMAIN quizzes :
        /\ i \in HistoryIndices
        /\ quiz_item[i] = At(search_history, i)

====
